---- MODULE Spec2Model ----
(***************************************************************************)
(* A model of app.py, the audio summarizer dashboard: the storage wrappers  *)
(* (list / read / presign / upload with existence-checked key allocation),  *)
(* the capture-to-temporary-file pipeline and the control flow of main()    *)
(* for one script run (one user action).                                    *)
(*                                                                          *)
(* Strings are sequences of one-character strings, so that lower(),         *)
(* endswith(), splitext(), slicing and S3's key ordering are computed.      *)
(***************************************************************************)
EXTENDS Integers, Sequences, FiniteSets, TLC

\* Python's None, among values that are strings (sequences of characters).
None == << "None" >>

(******************************* strings ***********************************)

\* The characters used by the model, in ASCII (= UTF-8 binary) order.
Ascii ==
  << "-", ".", "/", "0", "1", "2", "3", "4", "5", "6", "7", "8", "9",
     "A", "B", "C", "D", "E", "F", "S", "T", "W", "X", "_",
     "a", "b", "c", "d", "e", "f", "g", "i", "m", "n", "o", "p", "r", "s", "t",
     "u", "v", "w", "x" >>

\* ord(c)
OrdOf == [c \in { Ascii[i] : i \in 1..Len(Ascii) } |->
            CHOOSE i \in 1..Len(Ascii) : Ascii[i] = c]
Ord(c) == OrdOf[c]

\* str.lower() on one character
LowerChar(c) ==
  CASE c = "A" -> "a" [] c = "B" -> "b" [] c = "C" -> "c" [] c = "D" -> "d"
    [] c = "E" -> "e" [] c = "F" -> "f" [] c = "S" -> "s" [] c = "T" -> "t"
    [] c = "W" -> "w" [] c = "X" -> "x" [] OTHER -> c

\* str.lower()
Lower(s) == [i \in 1..Len(s) |-> LowerChar(s[i])]

\* str.endswith(suffix)
EndsWith(s, suffix) ==
  /\ Len(suffix) <= Len(s)
  /\ SubSeq(s, Len(s) - Len(suffix) + 1, Len(s)) = suffix

\* str.startswith(prefix)
StartsWith(s, prefix) ==
  /\ Len(prefix) <= Len(s)
  /\ SubSeq(s, 1, Len(prefix)) = prefix

\* s[:n]
Take(s, n) == SubSeq(s, 1, IF n < Len(s) THEN n ELSE Len(s))

\* Strict lexicographic order on strings, by character code.
StrLess(a, b) ==
  \E i \in 1..(Len(b)) :
     /\ \A j \in 1..(i - 1) : j <= Len(a) /\ a[j] = b[j]
     /\ \/ i = Len(a) + 1
        \/ i <= Len(a) /\ Ord(a[i]) < Ord(b[i])

\* The keys of a finite set, in ascending order.
RECURSIVE SortKeys(_)
SortKeys(S) ==
  IF S = {} THEN << >>
  ELSE LET m == CHOOSE x \in S : \A y \in S \ {x} : StrLess(x, y)
       IN  << m >> \o SortKeys(S \ {m})

\* os.path.splitext(filename): split at the last dot of the name (a leading
\* dot does not start an extension).
SplitExt(f) ==
  LET dots == { i \in 2..Len(f) : f[i] = "." }
  IN  IF dots = {} THEN << f, << >> >>
      ELSE LET d == CHOOSE i \in dots : \A j \in dots : j <= i
           IN  << SubSeq(f, 1, d - 1), SubSeq(f, d, Len(f)) >>

DigitChar(d) == << "0", "1", "2", "3", "4", "5", "6", "7", "8", "9" >>[d + 1]

\* n rendered in decimal, zero-padded to the given width (%Y, %m, %d, ...).
RECURSIVE Pad(_, _)
Pad(n, width) ==
  IF width = 0 THEN << >>
  ELSE Pad(n \div 10, width - 1) \o << DigitChar(n % 10) >>

\* datetime.strftime("%Y%m%d_%H%M%S")
Strftime(t) ==
  Pad(t.Y, 4) \o Pad(t.m, 2) \o Pad(t.d, 2) \o << "_" >>
    \o Pad(t.H, 2) \o Pad(t.M, 2) \o Pad(t.S, 2)


(************************** names and keys *********************************)

\* The three key prefixes main() lists (lines 190, 215, 237); "source/" is
\* also the prefix upload_to_s3 builds its key with (lines 111, 116).
SourcePrefix == << "s", "o", "u", "r", "c", "e", "/" >>
TransPrefix == << "t", "r", "a", "n", "s", "c", "r", "i", "p", "t", "i", "o", "n", "/" >>
ProcPrefix == << "p", "r", "o", "c", "e", "s", "s", "e", "d", "/" >>

\* The base filename main() passes to upload_to_s3 (line 166).
RecordingWav == << "r", "e", "c", "o", "r", "d", "i", "n", "g", ".", "w", "a", "v" >>

\* The extension filter main() passes for transcripts (line 215).
TxtExt == << ".", "t", "x", "t" >>

\* Values datetime.now() may return. Candidates collide only within one
\* second, so one second is modelled and the uuid4 tells candidates apart.
Datetimes ==
  { [Y |-> 2024, m |-> 1, d |-> 5, H |-> 9, M |-> 30, S |-> 7] }

\* Values str(uuid.uuid4()) may return.
Uuids ==
  { << "a", "1", "b", "2", "c", "3", "d", "4", "-", "0", "e", "0", "f", "-", "4", "a", "0", "b", "-", "8", "c", "0", "d", "-", "0", "1", "2", "3", "4", "5", "6", "7", "8", "9", "a", "b" >>,
    << "f", "0", "0", "d", "c", "a", "f", "e", "-", "1", "1", "1", "1", "-", "4", "2", "2", "2", "-", "8", "3", "3", "3", "-", "4", "4", "4", "4", "5", "5", "5", "5", "6", "6", "6", "6" >> }

\* generate_unique_filename(original_filename), for one reading of the clock
\* and one uuid4.
UniqueFilename(original_filename, now, uuid4) ==
  LET timestamp == Strftime(now)
      unique_id == Take(uuid4, 8)
      name      == SplitExt(original_filename)[1]
      ext       == SplitExt(original_filename)[2]
  IN  name \o << "_" >> \o timestamp \o << "_" >> \o unique_id \o ext

\* Every name generate_unique_filename("recording.wav") can produce here.
Candidates ==
  { UniqueFilename(RecordingWav, now, u) : now \in Datetimes, u \in Uuids }

\* key = f"source/{unique_filename}"
SourceKey(unique_filename) == SourcePrefix \o unique_filename

\* Objects the downstream pipeline may have written.
TransKeys ==
  { TransPrefix \o << "a", ".", "T", "X", "T" >>,
    TransPrefix \o << "b", ".", "w", "a", "v" >>,
    TransPrefix \o << "c", ".", "t", "x", "t" >> }
SummaryKey == ProcPrefix \o << "s", ".", "t", "x", "t" >>
\* A summary whose bytes are not valid UTF-8.
BinaryKey == ProcPrefix \o << "x", ".", "t", "x", "t" >>

\* Besides the named keys, the bucket may hold `bulk` further objects under
\* source/ (older audio, named like BulkExample): they sort after the bare
\* prefix key and before every "source/recording_..." key.
BulkExample == SourcePrefix \o << "a", "0", "0", "0", "1", ".", "w", "a", "v" >>

\* list_objects_v2 is called without MaxKeys or a continuation token (line
\* 33): S3 answers with at most this many keys, in ascending key order.
MaxKeys == 1000


(************************** the object store *******************************)

Min(a, b) == IF a < b THEN a ELSE b

\* A list of keys: `keys` are the named ones in order, `bulk` counts the
\* bulk objects among them (they come after the bare prefix key and before
\* the other named keys). [] in Python.
EmptyList == [bulk |-> 0, keys |-> << >>]

ListLen(files) == files.bulk + Len(files.keys)

\* s3_client.list_objects_v2(Bucket=bucket, Prefix=prefix)['Contents'], as
\* the list of its keys: the first MaxKeys keys under the prefix in
\* ascending order. `objs` is the set of named keys stored, `nbulk` the
\* number of bulk objects stored.
ListObjectsV2(objs, nbulk, prefix) ==
  LET under  == { k \in objs : StartsWith(k, prefix) }
      head   == IF prefix \in under THEN << prefix >> ELSE << >>
      rest   == SortKeys(under \ {prefix})
      nb     == IF StartsWith(BulkExample, prefix) THEN nbulk ELSE 0
      room   == MaxKeys - Len(head)
      taken  == Min(nb, room)
  IN  [bulk |-> taken, keys |-> head \o Take(rest, room - taken)]

\* list_s3_files, lines 34-39: the value returned when list_objects_v2
\* answers. file_extension = None stands for the default argument.
ListS3FilesOk(objs, nbulk, prefix, file_extension) ==
  LET contents == ListObjectsV2(objs, nbulk, prefix)
      ends(f)  == EndsWith(Lower(f), Lower(file_extension))
  IN  IF ListLen(contents) > 0
      THEN IF file_extension # None /\ file_extension # << >>
           THEN [bulk |-> IF ends(BulkExample) THEN contents.bulk ELSE 0,
                 keys |-> SelectSeq(contents.keys, ends)]
           ELSE contents
      ELSE EmptyList

\* main() drawing a row for every key listed.
RowsUnfilteredAll(files, prefix) == files

\* main(), lines 191-195 and 238-242: the rows drawn for a listing of the
\* source/ or processed/ column; none when the "No ... available" note is
\* shown instead.
RowsUnfiltered(files, prefix) ==
  IF ListLen(files) = 0 \/ (ListLen(files) = 1 /\ files.bulk = 0 /\ files.keys[1] = prefix)
  THEN EmptyList
  ELSE [bulk |-> files.bulk, keys |-> SelectSeq(files.keys, LAMBDA f : f # prefix)]

\* main(), lines 216-220: the rows drawn for the transcripts column.
RowsTranscripts(files) ==
  IF ListLen(files) = 0
  THEN EmptyList
  ELSE [bulk |-> files.bulk, keys |-> SelectSeq(files.keys, LAMBDA f : f # TransPrefix)]

Range(seq) == { seq[i] : i \in 1..Len(seq) }


(****************************** state **************************************)

\* Bound: the number of temporary file names the local disk offers.
MaxTempFiles == 2

\* The paths tempfile.NamedTemporaryFile(suffix='.wav') can return.
TempPaths == { << "t", "m", "p", DigitChar(i), ".", "w", "a", "v" >> : i \in 1..MaxTempFiles }

\* Browser sessions; each runs main() once per user action.
Sessions == {1, 2}

SourceKeys == { SourceKey(f) : f \in Candidates }

VARIABLES
  bucket,       \* named keys stored in the bucket
  bulk,         \* number of bulk objects stored under source/
  invalidUtf8,  \* stored keys whose bytes are not valid UTF-8
  disk,         \* temporary files that exist on the local disk
  sess,         \* per session: the position in main() and its locals
  allocated,    \* history: keys whose existence check answered "not found"
  reallocated,  \* history: keys for which it did so more than once
  overwritten   \* history: keys uploaded to while an object was stored there

vars == << bucket, bulk, invalidUtf8, disk, sess,
           allocated, reallocated, overwritten >>

store == << bucket, bulk, invalidUtf8 >>
hist  == << allocated, reallocated, overwritten >>

NoExc == [op |-> "", exc |-> ""]
NoTrigger == [kind |-> "none", key |-> None]
NoResult == [set |-> FALSE, success |-> FALSE, filename |-> None]

\* The locals of one run of main(), started by the user action `trig`.
\* Besides the program's values it keeps what the run has done so far:
\* msgs (the st.error messages), failures (failed device, file and storage
\* calls), created (temporary files created), headCalled / uploadCalled
\* (head_object / upload_file has been called), regenerated (the while loop
\* of upload_to_s3 has replaced a candidate), listed (prefixes list_objects_v2
\* has answered for).
Run(trig, at) ==
  [ pc |-> at, trigger |-> trig,
    recording |-> None, temp_wav |-> None, unique_filename |-> None,
    result |-> NoResult, raised |-> NoExc,
    audio_files |-> EmptyList, transcription_files |-> EmptyList,
    summary_files |-> EmptyList, listed |-> {},
    url |-> None, content |-> None,
    msgs |-> << >>, failures |-> 0, created |-> {},
    headCalled |-> FALSE, uploadCalled |-> FALSE, regenerated |-> FALSE,
    headError |-> FALSE, recordFailed |-> FALSE, saveCalled |-> FALSE ]

\* The bucket as the run finds it: any objects under source/, and under the
\* other two prefixes nothing, the bare prefix keys, or the pipeline's output.
InitStore ==
  /\ bucket \in
       { src \cup other :
           src   \in SUBSET ({SourcePrefix} \cup SourceKeys),
           other \in { {}, {TransPrefix, ProcPrefix},
                       {TransPrefix, ProcPrefix, SummaryKey, BinaryKey} \cup TransKeys } }
  /\ bulk \in {0, MaxKeys - 1}
  /\ invalidUtf8 = bucket \cap {BinaryKey}

InitRest ==
  /\ disk = {}
  /\ sess = [s \in Sessions |-> Run(NoTrigger, "idle")]
  /\ allocated = {}
  /\ reallocated = {}
  /\ overwritten = {}

\* One session, as section 5 of the specification describes the program.
Init ==
  /\ InitStore
  /\ InitRest

Set(s, r) == sess' = [sess EXCEPT ![s] = r]

\* tempfile's choice of a name that no file has: the names are
\* interchangeable, the first free one is taken.
FreshPath(files) ==
  CHOOSE p \in TempPaths \ files : \A q \in TempPaths \ files : p = q \/ StrLess(p, q)

\* The sidebar block (lines 135-175) is over: its locals are dead, and what
\* the run recorded about the recording flow is dropped with them.
LeaveSidebar(r) ==
  [r EXCEPT !.recording = None, !.temp_wav = None, !.unique_filename = None,
            !.created = {}, !.headCalled = FALSE, !.uploadCalled = FALSE,
            !.regenerated = FALSE,
            !.headError = FALSE, !.recordFailed = FALSE, !.saveCalled = FALSE]

\* st.error(message)
Report(r, message) == [r EXCEPT !.msgs = Append(@, message)]

\* An exception leaves main(): the script run ends there.
Abort(r, op, exc) == [r EXCEPT !.raised = [op |-> op, exc |-> exc], !.pc = "idle"]


(*************************** user actions **********************************)

\* The rows of the three columns as the session's last run drew them.
AudioRows(r)   == RowsUnfiltered(r.audio_files, SourcePrefix)
TransRows(r)   == RowsTranscripts(r.transcription_files)
SummaryRows(r) == RowsUnfiltered(r.summary_files, ProcPrefix)

\* "Start Recording" (line 158): the script runs with the button pressed.
ClickStartRecording(s) ==
  /\ sess[s].pc = "idle"
  /\ Set(s, Run([kind |-> "record", key |-> None], "record"))
  /\ UNCHANGED << store, disk, hist >>

\* "Refresh Files" (line 143), or any other rerun of the script.
ClickRefresh(s) ==
  /\ sess[s].pc = "idle"
  /\ Set(s, Run([kind |-> "refresh", key |-> None], "list_source"))
  /\ UNCHANGED << store, disk, hist >>

\* The play button of a row of the audio column (line 198).
ClickPlay(s) ==
  /\ sess[s].pc = "idle"
  /\ \E k \in Range(AudioRows(sess[s]).keys) :
        Set(s, Run([kind |-> "play", key |-> k], "list_source"))
  /\ UNCHANGED << store, disk, hist >>

\* The view button of a row of the transcripts column (line 223).
ClickViewTranscript(s) ==
  /\ sess[s].pc = "idle"
  /\ \E k \in Range(TransRows(sess[s]).keys) :
        Set(s, Run([kind |-> "view_trans", key |-> k], "list_source"))
  /\ UNCHANGED << store, disk, hist >>

\* The view button of a row of the summaries column (line 245).
ClickViewSummary(s) ==
  /\ sess[s].pc = "idle"
  /\ \E k \in Range(SummaryRows(sess[s]).keys) :
        Set(s, Run([kind |-> "view_proc", key |-> k], "list_source"))
  /\ UNCHANGED << store, disk, hist >>

(********************* capture and serialization ***************************)

\* main() without the test of line 161.
AfterRecordAlways(recording) == "save"

\* main(), line 161: where the run goes after record_audio returned.
AfterRecord(recording) == IF recording # None THEN "save" ELSE "list_source"

\* main(), line 164: where the run goes after save_wav_file returned.
AfterSave(temp_wav) == IF temp_wav # None THEN "upload_to_s3" ELSE "list_source"

\* record_audio (lines 55-69) and main's test of its result. Any exception
\* of sd.rec / sd.wait is caught: reported, and (None, None) returned.
RecordAudio(s) ==
  /\ sess[s].pc = "record"
  /\ \E outcome \in {"ok", "error"} :
        LET r == sess[s]
            recording == IF outcome = "ok" THEN << "ndarray" >> ELSE None
            r1 == IF outcome = "ok" THEN r
                  ELSE [Report(r, "Error recording audio") EXCEPT
                          !.failures = @ + 1, !.recordFailed = TRUE]
        IN  Set(s, [r1 EXCEPT !.recording = recording, !.pc = AfterRecord(recording)])
  /\ UNCHANGED << store, disk, hist >>

\* save_wav_file (lines 71-86) and main's test of its result.
\*   tempfile_error: NamedTemporaryFile raises, no file is created.
\*   wave_error: the file was created (delete=False) and wave.open, a setter
\*     or writeframes raises; with recording = None, recording.tobytes()
\*     raises. The except clause reports and returns None.
\*   ok: the path of the file is returned.
SaveWavFile(s) ==
  /\ sess[s].pc = "save"
  /\ \E outcome \in (IF sess[s].recording = None THEN {} ELSE {"ok"})
                      \cup {"tempfile_error", "wave_error"} :
        LET r == [sess[s] EXCEPT !.saveCalled = TRUE]
        IN  IF outcome = "tempfile_error"
            THEN /\ Set(s, [Report(r, "Error saving WAV file") EXCEPT
                              !.failures = @ + 1, !.pc = AfterSave(None)])
                 /\ disk' = disk
            ELSE /\ TempPaths \ disk # {}
                 /\ LET path == FreshPath(disk) IN
                   /\ disk' = disk \cup {path}
                   /\ IF outcome = "wave_error"
                      THEN Set(s, [Report(r, "Error saving WAV file") EXCEPT
                                     !.failures = @ + 1, !.created = @ \cup {path},
                                     !.pc = AfterSave(None)])
                      ELSE Set(s, [r EXCEPT !.temp_wav = path,
                                     !.created = @ \cup {path},
                                     !.pc = AfterSave(path)])
  /\ UNCHANGED << store, hist >>


(****************************** upload *************************************)

\* What head_object can answer for a key: "200" when an object is stored
\* there, "404" when none is, and at any time "403" (a ClientError with
\* another code) or "error" (an exception that is no ClientError, such as a
\* connection error).
HeadResponses(objs, key) ==
  (IF key \in objs THEN {"200"} ELSE {"404"}) \cup {"403", "error"}

\* check_file_exists with `except ClientError: return False`: every error
\* code is taken for "not found".
CheckFileExistsSwallow(response) ==
  CASE response = "200" -> "True"
    [] response = "404" -> "False"
    [] response = "403" -> "False"
    [] OTHER            -> "BotoCoreError"

\* check_file_exists that answers False for a key that exists.
CheckFileExistsNever(response) ==
  CASE response = "200" -> "False"
    [] response = "404" -> "False"
    [] response = "403" -> "ClientError"
    [] OTHER            -> "BotoCoreError"

\* check_file_exists (lines 95-103): True, False, or the exception raised.
CheckFileExists(response) ==
  CASE response = "200" -> "True"
    [] response = "404" -> "False"
    [] response = "403" -> "ClientError"
    [] OTHER            -> "BotoCoreError"

\* upload_to_s3, lines 121-123: a ClientError is reported and (False, None)
\* returned to main.
UploadCaught(r) ==
  [Report(r, "Error uploading to S3") EXCEPT
     !.result = [set |-> TRUE, success |-> FALSE, filename |-> None],
     !.pc = "after_upload"]

\* Any other exception leaves upload_to_s3 and main's try block; the finally
\* clause runs before it leaves main.
UploadRaised(r, exc) ==
  [r EXCEPT !.raised = [op |-> "upload_to_s3", exc |-> exc], !.pc = "finally"]

\* upload_to_s3, lines 110-111: the first candidate.
UploadBegin(s) ==
  /\ sess[s].pc = "upload_to_s3"
  /\ \E now \in Datetimes, uuid4 \in Uuids :
        Set(s, [sess[s] EXCEPT
                  !.unique_filename = UniqueFilename(RecordingWav, now, uuid4),
                  !.pc = "check"])
  /\ UNCHANGED << store, disk, hist >>

\* upload_to_s3, lines 114-116: one existence check of the while loop, and
\* the regeneration of the candidate when the key exists.
CheckStep(s) ==
  /\ sess[s].pc = "check"
  /\ LET key == SourceKey(sess[s].unique_filename)
     IN  \E response \in HeadResponses(bucket, key) :
           LET exists == CheckFileExists(response)
               r == [sess[s] EXCEPT
                       !.headCalled = TRUE,
                       !.headError = @ \/ response = "403",
                       !.failures = IF response \in {"403", "error"} THEN @ + 1 ELSE @]
           IN  CASE exists = "True" ->
                      /\ \E now \in Datetimes, uuid4 \in Uuids :
                           Set(s, [r EXCEPT !.regenerated = TRUE,
                                     !.unique_filename =
                                       UniqueFilename(RecordingWav, now, uuid4)])
                      /\ UNCHANGED << allocated, reallocated >>
                 [] exists = "False" ->
                      /\ Set(s, [r EXCEPT !.pc = "upload"])
                      /\ allocated' = allocated \cup {key}
                      /\ reallocated' = IF key \in allocated
                                        THEN reallocated \cup {key} ELSE reallocated
                 [] exists = "ClientError" ->
                      /\ Set(s, UploadCaught(r))
                      /\ UNCHANGED << allocated, reallocated >>
                 [] OTHER ->
                      /\ Set(s, UploadRaised(r, exists))
                      /\ UNCHANGED << allocated, reallocated >>
  /\ UNCHANGED << store, disk, overwritten >>

\* upload_to_s3, lines 119-120: s3_client.upload_file and the return.
\* boto3 raises S3UploadFailedError (no ClientError) when the transfer
\* fails; the ClientError outcome is the one line 121 provides for.
UploadFile(s) ==
  /\ sess[s].pc = "upload"
  /\ LET name == sess[s].unique_filename
         key  == SourceKey(name)
         r    == [sess[s] EXCEPT !.uploadCalled = TRUE]
     IN  \E outcome \in {"ok", "ClientError", "S3UploadFailedError"} :
           IF outcome = "ok"
           THEN /\ bucket' = bucket \cup {key}
                /\ overwritten' = IF key \in bucket
                                  THEN overwritten \cup {key} ELSE overwritten
                /\ Set(s, [r EXCEPT
                             !.result = [set |-> TRUE, success |-> TRUE, filename |-> name],
                             !.pc = "after_upload"])
           ELSE /\ UNCHANGED << bucket, overwritten >>
                /\ Set(s, IF outcome = "ClientError"
                          THEN UploadCaught([r EXCEPT !.failures = @ + 1])
                          ELSE UploadRaised([r EXCEPT !.failures = @ + 1], outcome))
  /\ UNCHANGED << bulk, invalidUtf8, disk, allocated, reallocated >>

\* main(), lines 168-172: the result of upload_to_s3 is shown.
AfterUpload(s) ==
  /\ sess[s].pc = "after_upload"
  /\ Set(s, [(IF sess[s].result.success THEN sess[s]
              ELSE Report(sess[s], "Upload failed")) EXCEPT !.pc = "finally"])
  /\ UNCHANGED << store, disk, hist >>

\* main() with the unlink after the if/else instead of in a finally clause:
\* an exception in flight skips it.
FinallySkippedOnException(s) ==
  /\ sess[s].pc = "finally"
  /\ disk' = IF sess[s].raised = NoExc /\ sess[s].temp_wav # None /\ sess[s].temp_wav \in disk
             THEN disk \ {sess[s].temp_wav} ELSE disk
  /\ Set(s, [sess[s] EXCEPT
               !.pc = IF sess[s].raised # NoExc THEN "idle" ELSE "list_source"])
  /\ UNCHANGED << store, hist >>

\* main(), lines 173-175: the finally clause; an exception in flight then
\* leaves main().
Finally(s) ==
  /\ sess[s].pc = "finally"
  /\ disk' = IF sess[s].temp_wav # None /\ sess[s].temp_wav \in disk
             THEN disk \ {sess[s].temp_wav} ELSE disk
  /\ Set(s, [sess[s] EXCEPT
               !.pc = IF sess[s].raised # NoExc THEN "idle" ELSE "list_source"])
  /\ UNCHANGED << store, hist >>


(************************* listing and reading *****************************)

\* What a storage call can do besides answering: raise a ClientError, or an
\* exception that is no ClientError.
StorageOutcomes == {"ok", "ClientError", "BotoCoreError"}

\* list_s3_files (lines 29-42) for one outcome of list_objects_v2, when no
\* exception leaves it: the list returned.
ListS3Files(objs, nbulk, prefix, file_extension, outcome) ==
  IF outcome = "ok" THEN ListS3FilesOk(objs, nbulk, prefix, file_extension)
  ELSE EmptyList

\* The effect of one call of list_s3_files on the run, apart from the list.
Listed(r, column, outcome) ==
  CASE outcome = "ok" -> [r EXCEPT !.listed = @ \cup {column}]
    [] outcome = "ClientError" ->
         [Report(r, "Error listing S3 files") EXCEPT !.failures = @ + 1]
    [] OTHER -> Abort([r EXCEPT !.failures = @ + 1], "list_s3_files", outcome)

\* main(), lines 190-198: the audio column; the play button of a row acts
\* when it was pressed and the row is drawn again.
ListSource(s) ==
  /\ sess[s].pc = "list_source"
  /\ \E outcome \in StorageOutcomes :
        LET files == ListS3Files(bucket, bulk, SourcePrefix, None, outcome)
            r == [Listed(LeaveSidebar(sess[s]), "source", outcome) EXCEPT
                    !.audio_files = files]
        IN  Set(s, IF r.raised # NoExc THEN r
                   ELSE [r EXCEPT !.pc =
                           IF /\ r.trigger.kind = "play"
                              /\ r.trigger.key \in Range(AudioRows(r).keys)
                           THEN "play" ELSE "list_trans"])
  /\ UNCHANGED << store, disk, hist >>

\* get_s3_presigned_url (lines 16-27), called at line 199.
Play(s) ==
  /\ sess[s].pc = "play"
  /\ \E outcome \in StorageOutcomes :
        LET r == sess[s]
        IN  Set(s, CASE outcome = "ok" ->
                          [r EXCEPT !.url = << "url" >>, !.pc = "list_trans"]
                     [] outcome = "ClientError" ->
                          [Report(r, "Error generating presigned URL") EXCEPT
                             !.failures = @ + 1, !.pc = "list_trans"]
                     [] OTHER ->
                          Abort([r EXCEPT !.failures = @ + 1],
                                "get_s3_presigned_url", outcome))
  /\ UNCHANGED << store, disk, hist >>

\* What get_object and the decoding of its body can do for a key.
ReadOutcomes(objs, key) ==
  (IF key \in objs THEN {"ok"} ELSE {"NoSuchKey"}) \cup {"AccessDenied", "BotoCoreError"}

\* read_text_file (lines 44-53): the run after the call, then at `next`.
\* A body that is not valid UTF-8 makes decode raise UnicodeDecodeError,
\* which is no ClientError.
ReadTextFile(r, key, outcome, next) ==
  CASE outcome = "ok" /\ key \notin invalidUtf8 ->
         [r EXCEPT !.content = << "text" >>, !.pc = next]
    [] outcome = "ok" /\ key \in invalidUtf8 ->
         Abort([r EXCEPT !.failures = @ + 1], "read_text_file", "UnicodeDecodeError")
    [] outcome \in {"NoSuchKey", "AccessDenied"} ->
         [Report(r, "Error reading file") EXCEPT !.failures = @ + 1, !.pc = next]
    [] OTHER ->
         Abort([r EXCEPT !.failures = @ + 1], "read_text_file", outcome)

\* main(), lines 215-223: the transcripts column.
ListTrans(s) ==
  /\ sess[s].pc = "list_trans"
  /\ \E outcome \in StorageOutcomes :
        LET files == ListS3Files(bucket, bulk, TransPrefix, TxtExt, outcome)
            r == [Listed(sess[s], "transcription", outcome) EXCEPT
                    !.transcription_files = files]
        IN  Set(s, IF r.raised # NoExc THEN r
                   ELSE [r EXCEPT !.pc =
                           IF /\ r.trigger.kind = "view_trans"
                              /\ r.trigger.key \in Range(TransRows(r).keys)
                           THEN "view_trans" ELSE "list_proc"])
  /\ UNCHANGED << store, disk, hist >>

\* main(), line 224: read_text_file for the transcript chosen.
ViewTranscript(s) ==
  /\ sess[s].pc = "view_trans"
  /\ \E outcome \in ReadOutcomes(bucket, sess[s].trigger.key) :
        Set(s, ReadTextFile(sess[s], sess[s].trigger.key, outcome, "list_proc"))
  /\ UNCHANGED << store, disk, hist >>

\* main(), lines 237-245: the summaries column; the run ends after it.
ListProc(s) ==
  /\ sess[s].pc = "list_proc"
  /\ \E outcome \in StorageOutcomes :
        LET files == ListS3Files(bucket, bulk, ProcPrefix, None, outcome)
            r == [Listed(sess[s], "processed", outcome) EXCEPT !.summary_files = files]
        IN  Set(s, IF r.raised # NoExc THEN r
                   ELSE [r EXCEPT !.pc =
                           IF /\ r.trigger.kind = "view_proc"
                              /\ r.trigger.key \in Range(SummaryRows(r).keys)
                           THEN "view_proc" ELSE "idle"])
  /\ UNCHANGED << store, disk, hist >>

\* main(), line 246: read_text_file for the summary chosen.
ViewSummary(s) ==
  /\ sess[s].pc = "view_proc"
  /\ \E outcome \in ReadOutcomes(bucket, sess[s].trigger.key) :
        Set(s, ReadTextFile(sess[s], sess[s].trigger.key, outcome, "idle"))
  /\ UNCHANGED << store, disk, hist >>

(*************************** specifications ********************************)

\* Only the first session is open.
Next ==
  \E s \in {1} :
     \/ ClickStartRecording(s)
     \/ ClickRefresh(s)
     \/ ClickPlay(s)
     \/ ClickViewTranscript(s)
     \/ ClickViewSummary(s)
     \/ RecordAudio(s)
     \/ SaveWavFile(s)
     \/ UploadBegin(s)
     \/ CheckStep(s)
     \/ UploadFile(s)
     \/ AfterUpload(s)
     \/ Finally(s)
     \/ ListSource(s)
     \/ Play(s)
     \/ ListTrans(s)
     \/ ViewTranscript(s)
     \/ ListProc(s)
     \/ ViewSummary(s)

Spec == Init /\ [][Next]_vars

\* Two sessions press Start Recording against the same bucket: the steps of
\* the recording flow (lines 158-175) interleave at the storage calls.
InitConc ==
  /\ bucket \in SUBSET ({SourcePrefix} \cup SourceKeys)
  /\ bulk = 0
  /\ invalidUtf8 = {}
  /\ InitRest

NextConc ==
  \E s \in Sessions :
     \/ ClickStartRecording(s)
     \/ RecordAudio(s)
     \/ SaveWavFile(s)
     \/ UploadBegin(s)
     \/ CheckStep(s)
     \/ UploadFile(s)
     \/ AfterUpload(s)
     \/ Finally(s)

SpecConc == InitConc /\ [][NextConc]_vars


(******************************* claims ************************************)

\* The positions inside the Start Recording block of main (lines 158-175).
SidebarPcs == {"record", "save", "upload_to_s3", "check", "upload", "after_upload", "finally"}

\* The Start Recording block of the session's run is over (the run went on
\* to the listings, or an exception ended it), and what it did is still on
\* record.
RecordingOver(r) ==
  /\ r.trigger.kind = "record"
  /\ \/ r.pc = "list_source"
     \/ r.pc = "idle" /\ r.raised.op = "upload_to_s3"

\* C1: once save_wav_file has returned a path, the file is gone when the
\* Start Recording block ends, whether upload_to_s3 returned success,
\* returned failure or raised.
C1_TempFileDeleted ==
  \A s \in Sessions :
     (RecordingOver(sess[s]) /\ sess[s].temp_wav # None) => sess[s].temp_wav \notin disk

\* C1 witness: upload_to_s3 raised, the block is over and the file is gone.
C1_Witness ==
  \E s \in Sessions :
     /\ RecordingOver(sess[s])
     /\ sess[s].temp_wav # None
     /\ sess[s].raised.exc = "S3UploadFailedError"
     /\ sess[s].temp_wav \notin disk

\* C2: when head_object fails with a code other than 404, upload_file is
\* not called, no key goes on to the upload, the failure is reported and
\* main receives (False, None).
C2_HeadErrorAborts ==
  \A s \in Sessions :
     sess[s].headError =>
        /\ ~sess[s].uploadCalled
        /\ sess[s].pc \in {"after_upload", "finally", "list_source"}
        /\ sess[s].result = [set |-> TRUE, success |-> FALSE, filename |-> None]
        /\ "Error uploading to S3" \in Range(sess[s].msgs)
        /\ sess[s].raised = NoExc

\* C2 witness: the existence check failed with 403 after a regeneration and
\* the block is over.
C2_Witness ==
  \E s \in Sessions :
     sess[s].headError /\ sess[s].regenerated /\ sess[s].pc = "list_source"

\* C3 as claimed: no upload overwrites an object, and no key passes the
\* existence check (is allocated) twice.
C3_NeverReusesAllocatedKey == overwritten = {} /\ reallocated = {}

\* C3 as amended: no upload overwrites an object; a key that passed the
\* existence check is not stored until its upload succeeds, and a key
\* returned with success is stored. (A key whose upload failed was never
\* stored and can pass the check again.)
C3_NeverOverwrites ==
  /\ overwritten = {}
  /\ \A s \in Sessions :
        /\ sess[s].pc = "upload" => SourceKey(sess[s].unique_filename) \notin bucket
        /\ sess[s].result.success =>
              /\ SourceKey(sess[s].result.filename) \in bucket
              /\ SourceKey(sess[s].result.filename) \in allocated

\* C3 witness: a candidate collided, was regenerated, and the upload of the
\* regenerated name succeeded.
C3_Witness ==
  \E s \in Sessions :
     /\ sess[s].regenerated
     /\ sess[s].result.success
     /\ sess[s].pc = "list_source"

\* C4 as claimed: no exception leaves a component operation.
C4_NoExceptionEscapes == \A s \in Sessions : sess[s].raised = NoExc

\* The reports of the run's failures: the st.error messages, and the
\* traceback shown for an exception that left main().
Reports(r) == Len(r.msgs) + (IF r.raised # NoExc THEN 1 ELSE 0)

\* C5 as claimed: every failure of the run is reported exactly once.
C5_ReportedOnce == \A s \in Sessions : Reports(sess[s]) = sess[s].failures

\* The named keys stored under a prefix.
Under(prefix) == { k \in bucket : StartsWith(k, prefix) }

\* Nothing is stored under the prefix but possibly the bare prefix key.
OnlyMarker(prefix) ==
  /\ Under(prefix) \subseteq {prefix}
  /\ StartsWith(BulkExample, prefix) => bulk = 0

\* C6 as claimed: list_s3_files returns [] for a prefix that holds nothing
\* but possibly the bare prefix key.
C6_ListExcludesMarker ==
  \A s \in Sessions :
     /\ ("source" \in sess[s].listed /\ OnlyMarker(SourcePrefix))
           => sess[s].audio_files = EmptyList
     /\ ("transcription" \in sess[s].listed /\ OnlyMarker(TransPrefix))
           => sess[s].transcription_files = EmptyList
     /\ ("processed" \in sess[s].listed /\ OnlyMarker(ProcPrefix))
           => sess[s].summary_files = EmptyList

\* C6 as amended: list_s3_files returns [] for a prefix that holds nothing;
\* without an extension filter it returns the bare prefix key when that is
\* stored, and with the ".txt" filter it never does; main draws no row for a
\* bare prefix key, and draws no row at all when the prefix holds nothing
\* else.
C6_MarkerNeverDrawn ==
  \A s \in Sessions :
     LET r == sess[s] IN
     /\ SourcePrefix \notin Range(AudioRows(r).keys)
     /\ TransPrefix \notin Range(TransRows(r).keys)
     /\ ProcPrefix \notin Range(SummaryRows(r).keys)
     /\ TransPrefix \notin Range(r.transcription_files.keys)
     /\ "source" \in r.listed =>
          /\ OnlyMarker(SourcePrefix) => AudioRows(r) = EmptyList
          /\ (Under(SourcePrefix) = {} /\ bulk = 0) => r.audio_files = EmptyList
          /\ SourcePrefix \in bucket => r.audio_files.keys[1] = SourcePrefix
     /\ "transcription" \in r.listed =>
          (OnlyMarker(TransPrefix) => r.transcription_files = EmptyList)
     /\ "processed" \in r.listed =>
          /\ OnlyMarker(ProcPrefix) => SummaryRows(r) = EmptyList
          /\ Under(ProcPrefix) = {} => r.summary_files = EmptyList
          /\ ProcPrefix \in bucket => r.summary_files.keys[1] = ProcPrefix

\* C6 witness: source/ holds only the bare prefix key, list_s3_files
\* returned it, and no row is drawn.
C6_Witness ==
  \E s \in Sessions :
     /\ "source" \in sess[s].listed
     /\ OnlyMarker(SourcePrefix)
     /\ sess[s].audio_files.keys = << SourcePrefix >>
     /\ AudioRows(sess[s]) = EmptyList

\* C7: after record_audio failed it has reported the error and returned no
\* buffer, and the run does not enter save_wav_file or upload_to_s3: no
\* temporary file, no head_object, no upload_file.
C7_RecordFailureStops ==
  \A s \in Sessions :
     sess[s].recordFailed =>
        /\ sess[s].recording = None
        /\ "Error recording audio" \in Range(sess[s].msgs)
        /\ sess[s].pc = "list_source"
        /\ ~sess[s].saveCalled
        /\ sess[s].created = {}
        /\ sess[s].temp_wav = None
        /\ ~sess[s].headCalled
        /\ ~sess[s].uploadCalled
        /\ ~sess[s].result.set

\* C7 witness: record_audio failed and the block is over.
C7_Witness ==
  \E s \in Sessions : sess[s].recordFailed /\ RecordingOver(sess[s])

\* C8 as claimed: after a successful upload, the listing of source/ that
\* list_objects_v2 answers holds every key under the prefix, and the new key
\* exactly once.
C8_ListIncludesNewKey ==
  \A s \in Sessions :
     LET r == sess[s] IN
     (r.trigger.kind = "record" /\ r.result.success /\ "source" \in r.listed) =>
        /\ ListLen(r.audio_files) = Cardinality(Under(SourcePrefix)) + bulk
        /\ Cardinality({ i \in 1..Len(r.audio_files.keys) :
                           r.audio_files.keys[i] = SourceKey(r.result.filename) }) = 1

\* C9 as claimed: when the Start Recording block is over, no temporary file
\* it created is on the disk.
C9_NoTempFileLeft ==
  \A s \in Sessions : RecordingOver(sess[s]) => sess[s].created \cap disk = {}

\* C10: with two sessions uploading, an object is overwritten only through
\* the race: a key is uploaded to while stored only if its existence check
\* answered "not found" more than once before; the check itself never lets
\* a stored key pass.
C10_OverwriteOnlyByRace ==
  /\ overwritten \subseteq reallocated
  /\ \A s \in Sessions :
        (sess[s].pc = "upload" /\ SourceKey(sess[s].unique_filename) \in bucket)
           => SourceKey(sess[s].unique_filename) \in reallocated

\* C10 witness: both sessions were told success with the same filename, and
\* the later upload overwrote the earlier one.
C10_Witness ==
  /\ sess[1].result.success
  /\ sess[2].result.success
  /\ sess[1].result.filename = sess[2].result.filename
  /\ SourceKey(sess[1].result.filename) \in overwritten

====
